---- MODULE Spec2Model ----
(***************************************************************************)
(* Tag taxonomy engine of utopia_flask.                                    *)
(*                                                                         *)
(* Two stores hold tags: the relational table `tags` written by            *)
(* TagTreeService (create / move / merge) and the graph store written by   *)
(* TagService (create / update / delete).  Content taggings (EntryTag      *)
(* rows) live in the relational store and are written by EntryService.     *)
(* Strings are sequences of one-character strings, so that strip() and     *)
(* the "/"-join of paths are computed and not assumed.                     *)
(* Every service call runs in a database session of its own (the scoped    *)
(* session is removed at the end of each request), so a call reads the     *)
(* rows as the last commit left them.                                      *)
(***************************************************************************)
EXTENDS Integers, Sequences, FiniteSets, TLC

\* ------------------------------------------------------------------ bounds
\* rows the relational tags table may hold
MaxTags == 4
\* mutating service calls (both stores together) in one behaviour
MaxOps == 2
\* nodes the graph store may hold
MaxGraphTags == 4

\* ------------------------------------------------------------ input domains
\* None for an id (parent_id = None, merged_to absent)
NULL == 0
\* ids the relational store hands out (uuid4 in the code: fresh, unordered)
SqlIds == 1..MaxTags
\* raw `name` arguments of create_tag, before strip()
RawNames ==
    { <<>>, <<" ">>, <<" ", "a">>, <<"b">>, <<"e", " ">> }
\* user_id arguments of the tag tree service: the id of a users row, and an
\* id no users row has
TreeUsers == { "u1", "ghost" }
\* the user scripts/init_tag_tree.py creates the default tree as
SystemUser == "admin"
\* longest name TagService.create_tag accepts
NameLimit == 100
\* offset of the ids of graph-store tags (uuid4 as well: never a relational id)
GraphBase == 100
GraphIds == (GraphBase + 1)..(GraphBase + MaxGraphTags)
\* raw `name` arguments of TagService.create_tag
GraphNames == { <<" ">>, <<"e", " ">>, <<"a", "e">> }
\* rows of the users table and their UserPermission row
Users == { "admin", "u1" }
can_create_tags(u) == TRUE
can_edit_tags(u) == TRUE
can_approve_changes(u) == (u = "admin")
\* tag ids a create_entry request names
EntryTagInputs == { 1, 2, GraphBase + 2 }
\* keyword arguments an update_tag request carries
UpdateInputs == { [name |-> <<"a", "b">>], [status |-> "active"] }
\* authors of entries
EntryUsers == { "u1" }

\* ---------------------------------------------------------------- strings
\* str.strip(): drop leading and trailing whitespace
RECURSIVE lstrip(_)
lstrip(s) ==
    IF s # <<>> /\ Head(s) = " " THEN lstrip(Tail(s)) ELSE s

RECURSIVE rstrip(_)
rstrip(s) ==
    IF s # <<>> /\ s[Len(s)] = " " THEN rstrip(SubSeq(s, 1, Len(s) - 1)) ELSE s

strip(s) == rstrip(lstrip(s))

\* f"{parent.path}/{name}"
JoinPath(parentPath, name) == parentPath \o <<"/">> \o name

VARIABLES
    tags,        \* relational table tags: id -> row
    entry_tags,  \* relational table entry_tags: set of <<entry_id, tag_id>>
    history,     \* relational table tag_history, in insertion order
    entries,     \* relational table entries: number of rows
    gtags,       \* graph store: Tag nodes, id -> properties
    gedges,      \* graph store: CONTAINS edges <<parent_id, child_id>>
    ops,         \* number of mutating calls made so far
    last,        \* what the last service call returned
    calls        \* requests served at the same time: what each was asked,
                 \* how far it got and the rows its session holds

vars == <<tags, entry_tags, history, entries, gtags, gedges, ops, last, calls>>
sqlVars == <<tags, entry_tags, history, entries>>
graphVars == <<gtags, gedges>>

\* ------------------------------------------------------------- Tag (model)
\* db.session.add(row) followed by flush: the table with the row under id
Insert(T, id, row) == [ i \in DOMAIN T \cup {id} |-> IF i = id THEN row ELSE T[i] ]

\* rows of the table whose status is 'active'
ActiveIds(T) == { i \in DOMAIN T : T[i].status = "active" }

\* the lookup without its status filter
GetActive_any(T, id) == IF id \in DOMAIN T THEN id ELSE NULL

\* Tag.query.filter_by(id=..., status='active').first()
GetActive(T, id) == IF id \in ActiveIds(T) THEN id ELSE NULL

\* Tag.children (backref of Tag.parent): every row whose parent_id is id
children(T, id) == { c \in DOMAIN T : T[c].parent_id = id }

\* Tag.get_ancestors: walk .parent until None.  The walk is cut after as
\* many steps as there are rows, which no acyclic table reaches.
RECURSIVE AncestorsFrom(_, _, _)
AncestorsFrom(T, id, fuel) ==
    IF id = NULL \/ fuel = 0 THEN {}
    ELSE {id} \cup AncestorsFrom(T, T[id].parent_id, fuel - 1)

\* a walk that stops at the direct parent
get_ancestors_parent_only(T, id) ==
    IF T[id].parent_id = NULL THEN {} ELSE { T[id].parent_id }

get_ancestors(T, id) == AncestorsFrom(T, T[id].parent_id, Cardinality(DOMAIN T))

\* the check without its ancestor walk
can_be_parent_of_self_only(T, self, other) == self # other

\* Tag.can_be_parent_of(self, other_tag)
can_be_parent_of(T, self, other) ==
    /\ self # other
    /\ other \notin get_ancestors(T, self)

\* update_path without the loop over self.children
update_path_no_cascade(T, id, fuel) ==
    [T EXCEPT ![id].path =
        IF T[id].parent_id = NULL THEN T[id].name
        ELSE JoinPath(T[T[id].parent_id].path, T[id].name)]

\* Tag.update_path: recompute own path from the parent's stored path, then
\* recurse into every child
RECURSIVE update_path(_, _, _)
RECURSIVE UpdateEach(_, _, _)
update_path(T, id, fuel) ==
    LET p  == T[id].parent_id
        T1 == [T EXCEPT ![id].path =
                  IF p = NULL THEN T[id].name ELSE JoinPath(T[p].path, T[id].name)]
    IN  IF fuel = 0 THEN T1 ELSE UpdateEach(T1, children(T1, id), fuel - 1)

UpdateEach(T, kids, fuel) ==
    IF kids = {} THEN T
    ELSE LET c == CHOOSE k \in kids : TRUE
         IN  UpdateEach(update_path(T, c, fuel), kids \ {c}, fuel)

\* Tag.increment_usage: usage_count += 1, popularity_score = usage_count * 0.1
\* (popularity_score is kept in tenths)
increment_usage(row) ==
    [row EXCEPT !.usage_count = row.usage_count + 1,
                !.popularity_score = row.usage_count + 1]

\* Tag.to_dict, restricted to the columns the model keeps
to_dict(T, id) ==
    [ id |-> id, name |-> T[id].name, parent_id |-> T[id].parent_id,
      level |-> T[id].level, path |-> T[id].path, status |-> T[id].status,
      usage_count |-> T[id].usage_count, properties |-> T[id].merged_to ]

\* --------------------------------------------------------------- history
\* dict.get(key): <<v>> for a present key, <<>> for None
Get(d, k) == IF k \in DOMAIN d THEN <<d[k]>> ELSE <<>>

\* the diff _record_history computes when both old_data and new_data are given
Diff(old, new) ==
    IF old = <<>> \/ new = <<>> THEN <<>>
    ELSE LET o == old[1]
             n == new[1]
             changed == { k \in DOMAIN o \cup DOMAIN n : Get(o, k) # Get(n, k) }
         IN  [ k \in changed |-> [old |-> Get(o, k), new |-> Get(n, k)] ]

\* a recorder that overwrites the newest row instead of adding one
_record_history_replace(H, tag_id, action, user_id, old_data, new_data) ==
    LET rec == [ tag_id |-> tag_id, action |-> action, user_id |-> user_id,
                 old_data |-> old_data, new_data |-> new_data,
                 diff |-> <<>> ]
    IN  IF H = <<>> THEN <<rec>> ELSE [H EXCEPT ![Len(H)] = rec]

\* TagTreeService._record_history: db.session.add(TagHistory(...)); old_data
\* and new_data are <<dict>> or <<>> for None
_record_history(H, tag_id, action, user_id, old_data, new_data) ==
    Append(H, [ tag_id |-> tag_id, action |-> action, user_id |-> user_id,
                old_data |-> old_data, new_data |-> new_data,
                diff |-> Diff(old_data, new_data) ])

\* ------------------------------------------------------------------- Init
\* scripts/init_tag_tree.py, create_tags_recursive: the default tree, cut
\* down to the chain root > first child > first grandchild.  Each row is inserted with
\* its level, gets its path from update_path and one 'create' history row
\* whose new_data is the row's to_dict().
SeedRow(name, parent_id, level) ==
    [ name |-> name, parent_id |-> parent_id, level |-> level, path |-> <<>>,
      status |-> "active", usage_count |-> 0, popularity_score |-> 0,
      merged_to |-> NULL, created_by |-> SystemUser ]

SeedTags ==
    LET T1 == update_path(Insert(<<>>, 1, SeedRow(<<"r">>, NULL, 0)), 1, 1)
        T2 == update_path(Insert(T1, 2, SeedRow(<<"e">>, 1, 1)), 2, 2)
    IN  update_path(Insert(T2, 3, SeedRow(<<"l">>, 2, 2)), 3, 3)

SeedHistory ==
    LET H1 == _record_history(<<>>, 1, "create", SystemUser, <<>>,
                              << to_dict(SeedTags, 1) >>)
        H2 == _record_history(H1, 2, "create", SystemUser, <<>>,
                              << to_dict(SeedTags, 2) >>)
    IN  _record_history(H2, 3, "create", SystemUser, <<>>,
                        << to_dict(SeedTags, 3) >>)

\* scripts/init_tags.py: INITIAL_TAGS cut down to the root and its first
\* child, created by 'system', and the CONTAINS edge between them
SeedNode(name, level) ==
    [ name |-> name, level |-> level, status |-> "active", usage_count |-> 0,
      created_by |-> "system", edit_count |-> 0 ]

SeedGraph ==
    [ i \in { GraphBase + 1, GraphBase + 2 } |->
        IF i = GraphBase + 1 THEN SeedNode(<<"r">>, 0) ELSE SeedNode(<<"e">>, 1) ]

SeedEdges == { << GraphBase + 1, GraphBase + 2 >> }

\* both stores right after they were created, or after the default trees
\* were loaded into them
Init ==
    /\ \/ tags = <<>> /\ history = <<>> /\ gtags = <<>> /\ gedges = {}
       \/ /\ tags = SeedTags /\ history = SeedHistory
          /\ gtags = SeedGraph /\ gedges = SeedEdges
    /\ entry_tags = {}
    /\ entries = 0
    /\ ops = 0
    /\ last = [op |-> "none", ok |-> TRUE, msg |-> "none"]
    /\ calls = <<>>

\* a call that returns (False, msg) before it wrote anything, or after
\* db.session.rollback().  No call is made once MaxOps calls have written.
Fail(op, msg) ==
    /\ ops < MaxOps
    /\ last' = [op |-> op, ok |-> FALSE, msg |-> msg]
    /\ UNCHANGED <<sqlVars, graphVars, ops>>

\* A call that was refused (Fail) left both stores as they were, so what may
\* follow it is what may follow the state before it: behaviours are followed
\* up to the first refused call.  A failed create_entry is not such a call,
\* it keeps the usage counts it wrote to the graph store.
CanCall ==
    /\ ops < MaxOps
    /\ last.ok \/ last.op = "create_entry"

\* ------------------------------------------------------- TagTreeService
\* an id generator that counts the active rows only
NewTagId_reuse(T) == Cardinality(ActiveIds(T)) + 1

\* Tag.id default, uuid4: an id no row has yet
NewTagId(T) == Cardinality(DOMAIN T) + 1

\* the existence check looking at the first row only
NameTaken_first(T, name) == 1 \in ActiveIds(T) /\ T[1].name = name

\* Tag.query.filter_by(name=name, status='active').first() is not None
NameTaken(T, name) == \E i \in ActiveIds(T) : T[i].name = name

\* the foreign keys tags.created_by and tag_history.user_id -> users.id: a
\* row naming a user that does not exist makes flush or commit raise
\* IntegrityError, and the call rolls back and returns (False, ...)
UserExists(user_id) == user_id \in Users

\* TagTreeService.create_tag(name, user_id, parent_id)
create_tag(rawName, user_id, parent_id) ==
    IF rawName = <<>> \/ Len(strip(rawName)) = 0
    THEN Fail("create_tag", "empty_name")
    ELSE
    LET name == strip(rawName)
    IN  IF NameTaken(tags, name)
        THEN Fail("create_tag", "exists")
        ELSE IF parent_id # NULL /\ GetActive(tags, parent_id) = NULL
        THEN Fail("create_tag", "parent_not_found")
        ELSE IF ~UserExists(user_id)
        THEN Fail("create_tag", "integrity")
        ELSE
        LET id    == NewTagId(tags)
            level == IF parent_id # NULL THEN tags[parent_id].level + 1 ELSE 0
            row   == [ name |-> name, parent_id |-> parent_id, level |-> level,
                       path |-> <<>>, status |-> "active", usage_count |-> 0,
                       popularity_score |-> 0, merged_to |-> NULL,
                       created_by |-> user_id ]
            T1    == Insert(tags, id, row)
        IN  /\ id \in SqlIds
            /\ ops < MaxOps
            /\ tags' = update_path(T1, id, Cardinality(DOMAIN T1))
            /\ history' = _record_history(history, id, "create", user_id,
                             << [name |-> name, parent_id |-> parent_id] >>, <<>>)
            /\ ops' = ops + 1
            /\ last' = [op |-> "create_tag", ok |-> TRUE, msg |-> "created"]
            /\ UNCHANGED <<entry_tags, entries, graphVars>>

CreateTag ==
    /\ CanCall
    /\ UNCHANGED calls
    /\ \E n \in RawNames, u \in TreeUsers, p \in {NULL} \cup SqlIds :
          create_tag(n, u, p)

\* TagTreeService.move_tag(tag_id, new_parent_id, user_id)
move_tag(tag_id, new_parent_id, user_id) ==
    IF GetActive(tags, tag_id) = NULL
    THEN Fail("move_tag", "tag_not_found")
    ELSE IF new_parent_id # NULL /\ GetActive(tags, new_parent_id) = NULL
    THEN Fail("move_tag", "parent_not_found")
    ELSE IF new_parent_id # NULL /\ ~can_be_parent_of(tags, new_parent_id, tag_id)
    THEN Fail("move_tag", "cycle")
    ELSE IF ~UserExists(user_id)
    THEN Fail("move_tag", "exception")
    ELSE
    LET old_data == [ parent_id |-> tags[tag_id].parent_id,
                      level |-> tags[tag_id].level, path |-> tags[tag_id].path ]
        level == IF new_parent_id # NULL THEN tags[new_parent_id].level + 1 ELSE 0
        T1 == [tags EXCEPT ![tag_id].parent_id = new_parent_id,
                           ![tag_id].level = level]
        T2 == update_path(T1, tag_id, Cardinality(DOMAIN T1))
    IN  /\ ops < MaxOps
        /\ tags' = T2
        /\ history' = _record_history(history, tag_id, "move", user_id,
                         << old_data >>,
                         << [ parent_id |-> new_parent_id, level |-> T2[tag_id].level,
                              path |-> T2[tag_id].path ] >>)
        /\ ops' = ops + 1
        /\ last' = [op |-> "move_tag", ok |-> TRUE, msg |-> "moved"]
        /\ UNCHANGED <<entry_tags, entries, graphVars>>

\* EntryTag.query.filter_by(tag_id=source).update({'tag_id': target}) breaks
\* the primary key (entry_id, tag_id) when an entry carries both tags
RetagConflict(E, source, target) ==
    \E r \in E : r[2] = source /\ <<r[1], target>> \in E

Retag(E, source, target) ==
    { <<r[1], IF r[2] = source THEN target ELSE r[2]>> : r \in E }

\* TagTreeService.merge_tags(source_tag_id, target_tag_id, user_id)
merge_tags(source_tag_id, target_tag_id, user_id) ==
    IF GetActive(tags, source_tag_id) = NULL \/ GetActive(tags, target_tag_id) = NULL
    THEN Fail("merge_tags", "tag_not_found")
    ELSE IF source_tag_id = target_tag_id
    THEN Fail("merge_tags", "same_tag")
    ELSE IF RetagConflict(entry_tags, source_tag_id, target_tag_id)
            \/ ~UserExists(user_id)
    THEN Fail("merge_tags", "exception")
    ELSE
    LET T1 == [tags EXCEPT ![target_tag_id].usage_count =
                              tags[target_tag_id].usage_count
                              + tags[source_tag_id].usage_count]
        T2 == [T1 EXCEPT ![target_tag_id] = increment_usage(T1[target_tag_id])]
        T3 == [T2 EXCEPT ![source_tag_id].status = "merged",
                         ![source_tag_id].merged_to = target_tag_id]
    IN  /\ ops < MaxOps
        /\ entry_tags' = Retag(entry_tags, source_tag_id, target_tag_id)
        /\ tags' = T3
        /\ history' = _record_history(history, source_tag_id, "merge", user_id,
                         << to_dict(T3, source_tag_id) >>,
                         << [ merged_to |-> target_tag_id ] >>)
        /\ ops' = ops + 1
        /\ last' = [op |-> "merge_tags", ok |-> TRUE, msg |-> "merged"]
        /\ UNCHANGED <<entries, graphVars>>

\* ----------------------------------------------------------- Neo4jClient
\* toLower of one character
ToLower(c) == IF c = "A" THEN "a" ELSE IF c = "B" THEN "b" ELSE c

lower(s) == [ i \in 1..Len(s) |-> ToLower(s[i]) ]

\* Cypher: a CONTAINS b
Contains(a, b) ==
    \E i \in 0..(Len(a) - Len(b)) : SubSeq(a, i + 1, i + Len(b)) = b

\* code point of a character, for ORDER BY t.name
CharCode(c) ==
    CASE c = " " -> 32 [] c = "/" -> 47 [] c = "A" -> 65 [] c = "B" -> 66
      [] c = "a" -> 97 [] c = "b" -> 98 [] c = "e" -> 101 [] c = "l" -> 108
      [] c = "r" -> 114
      [] OTHER -> 122

\* string order of Cypher's ORDER BY ... ASC
RECURSIVE StrLess(_, _)
StrLess(a, b) ==
    IF b = <<>> THEN FALSE
    ELSE IF a = <<>> THEN TRUE
    ELSE IF CharCode(Head(a)) # CharCode(Head(b))
         THEN CharCode(Head(a)) < CharCode(Head(b))
         ELSE StrLess(Tail(a), Tail(b))

\* Neo4jClient.create_tag: CREATE (t:Tag $properties)
g_create_tag(G, id, row) == Insert(G, id, row)

\* Neo4jClient.get_tag_by_id: MATCH (t:Tag {id: $tag_id}), any status
g_get_tag_by_id(G, id) == IF id \in DOMAIN G THEN id ELSE NULL

\* Neo4jClient.search_tags: the nodes the WHERE clause keeps (description,
\* aliases and name_en are empty in the model and match no query)
g_search_matches(G, query) ==
    { i \in DOMAIN G : G[i].status # "deleted"
                       /\ Contains(lower(G[i].name), lower(query)) }

\* ORDER BY coalesce(t.usage_count, 0) DESC, t.name ASC
g_search_before(G, i, j) ==
    \/ G[i].usage_count > G[j].usage_count
    \/ G[i].usage_count = G[j].usage_count /\ StrLess(G[i].name, G[j].name)

\* Neo4jClient.search_tags(query, limit=1): the nodes that may come first
g_search_first(G, query) ==
    LET m == g_search_matches(G, query)
    IN  { i \in m : \A j \in m : ~g_search_before(G, j, i) }

\* Neo4jClient.get_child_tags: CONTAINS children that are not deleted
g_get_child_tags(G, E, parent_id) ==
    { c \in DOMAIN G : <<parent_id, c>> \in E /\ G[c].status # "deleted" }

\* Neo4jClient.create_tag_relationship: the edge is created only when both
\* ends exist and neither is deleted
g_create_tag_relationship(G, E, child_id, parent_id) ==
    IF /\ child_id \in DOMAIN G /\ parent_id \in DOMAIN G
       /\ G[child_id].status # "deleted" /\ G[parent_id].status # "deleted"
    THEN E \cup { <<parent_id, child_id>> }
    ELSE E

\* Neo4jClient.delete_tag: SET t.status = 'deleted'
g_delete_tag(G, id) == [G EXCEPT ![id].status = "deleted"]

\* Neo4jClient.update_tag_usage: usage_count + increment on a matched node
g_update_tag_usage(G, id) ==
    IF id \in DOMAIN G THEN [G EXCEPT ![id].usage_count = @ + 1] ELSE G

\* Neo4jClient.update_tag: SET t.key = value for every key of update_data
g_update_tag(G, id, data) ==
    [G EXCEPT ![id] = [ k \in DOMAIN G[id] |->
                          IF k \in DOMAIN data THEN data[k] ELSE G[id][k] ]]

\* ------------------------------------------------------------ TagService
\* str(uuid.uuid4()) in Neo4jClient.create_tag: an id no node has yet
NewGraphId(G) == GraphBase + Cardinality(DOMAIN G) + 1

\* TagService.create_tag(user_id, name, parent_id); connected is what
\* neo4j_client.is_connected() answers during the call
ts_create_tag(connected, user_id, rawName, parent_id) ==
    IF ~connected THEN Fail("ts_create_tag", "unavailable")
    ELSE IF ~can_create_tags(user_id) THEN Fail("ts_create_tag", "no_permission")
    ELSE IF rawName = <<>> \/ Len(strip(rawName)) = 0
    THEN Fail("ts_create_tag", "empty_name")
    ELSE IF Len(rawName) > NameLimit THEN Fail("ts_create_tag", "name_too_long")
    ELSE
    LET name == strip(rawName)
        first == g_search_first(gtags, name)
    IN  \/ /\ \E i \in first : gtags[i].name = name
           /\ Fail("ts_create_tag", "exists")
        \/ /\ first = {} \/ \E i \in first : gtags[i].name # name
           /\ IF parent_id # NULL /\ g_get_tag_by_id(gtags, parent_id) = NULL
              THEN Fail("ts_create_tag", "parent_not_found")
              ELSE
              LET id == NewGraphId(gtags)
                  parent_level == IF parent_id # NULL THEN gtags[parent_id].level ELSE 0
                  row == [ name |-> name, level |-> parent_level + 1,
                           status |-> "active", usage_count |-> 0,
                           created_by |-> user_id, edit_count |-> 0 ]
                  G1 == g_create_tag(gtags, id, row)
              IN  /\ id \in GraphIds
                  /\ ops < MaxOps
                  /\ gtags' = G1
                  /\ gedges' = IF parent_id # NULL
                               THEN g_create_tag_relationship(G1, gedges, id, parent_id)
                               ELSE gedges
                  /\ ops' = ops + 1
                  /\ last' = [op |-> "ts_create_tag", ok |-> TRUE, msg |-> "created"]
                  /\ UNCHANGED sqlVars

\* the keys TagService.update_tag lets through
allowed_fields == { "name", "description", "name_en", "aliases", "category" }

\* TagService.update_tag(tag_id, user_id, **update_data)
ts_update_tag(connected, tag_id, user_id, update_data) ==
    IF ~connected THEN Fail("ts_update_tag", "unavailable")
    ELSE IF ~can_edit_tags(user_id) THEN Fail("ts_update_tag", "no_permission")
    ELSE IF g_get_tag_by_id(gtags, tag_id) = NULL
    THEN Fail("ts_update_tag", "tag_not_found")
    ELSE IF gtags[tag_id].status = "deleted"
    THEN Fail("ts_update_tag", "deleted")
    ELSE
    LET keys == DOMAIN update_data \cap allowed_fields
        filtered_data == [ k \in keys \cup {"edit_count"} |->
                             IF k = "edit_count" THEN gtags[tag_id].edit_count + 1
                             ELSE update_data[k] ]
    IN  IF keys = {} THEN Fail("ts_update_tag", "no_fields")
        ELSE /\ ops < MaxOps
             /\ gtags' = g_update_tag(gtags, tag_id, filtered_data)
             /\ ops' = ops + 1
             /\ last' = [op |-> "ts_update_tag", ok |-> TRUE, msg |-> "updated"]
             /\ UNCHANGED <<sqlVars, gedges>>

\* a count that filters on the wrong column
EntryTagCount_entry(E, tag_id) == Cardinality({ r \in E : r[1] = tag_id })

\* EntryTag.query.filter_by(tag_id=tag_id).count()
EntryTagCount(E, tag_id) == Cardinality({ r \in E : r[2] = tag_id })

\* a creator test that compares nothing
is_creator_any(G, tag_id, user_id) == TRUE

\* is_creator = tag.get('created_by') == user_id
is_creator(G, tag_id, user_id) == G[tag_id].created_by = user_id

\* TagService.delete_tag(tag_id, user_id)
ts_delete_tag(connected, tag_id, user_id) ==
    IF ~connected THEN Fail("ts_delete_tag", "unavailable")
    ELSE IF g_get_tag_by_id(gtags, tag_id) = NULL
    THEN Fail("ts_delete_tag", "tag_not_found")
    ELSE IF ~(is_creator(gtags, tag_id, user_id) \/ can_approve_changes(user_id))
    THEN Fail("ts_delete_tag", "no_permission")
    ELSE IF g_get_child_tags(gtags, gedges, tag_id) # {}
    THEN Fail("ts_delete_tag", "has_children")
    ELSE IF EntryTagCount(entry_tags, tag_id) > 0
    THEN Fail("ts_delete_tag", "in_use")
    ELSE /\ ops < MaxOps
         /\ gtags' = g_delete_tag(gtags, tag_id)
         /\ ops' = ops + 1
         /\ last' = [op |-> "ts_delete_tag", ok |-> TRUE, msg |-> "deleted"]
         /\ UNCHANGED <<sqlVars, gedges>>

\* TagService.validate_tags, the loop over the cleaned ids: which ids are
\* valid, and the graph after the usage updates
g_valid(G, id) == id \in DOMAIN G /\ G[id].status # "deleted"

RECURSIVE ValidateLoop(_, _)
ValidateLoop(G, ids) ==
    IF ids = <<>> THEN [graph |-> G, valid |-> <<>>, invalid |-> <<>>]
    ELSE LET id   == Head(ids)
             G1   == IF g_valid(G, id) THEN g_update_tag_usage(G, id) ELSE G
             rest == ValidateLoop(G1, Tail(ids))
         IN  [ graph   |-> rest.graph,
               valid   |-> IF g_valid(G, id) THEN <<id>> \o rest.valid ELSE rest.valid,
               invalid |-> IF g_valid(G, id) THEN rest.invalid ELSE <<id>> \o rest.invalid ]

\* TagService.validate_tags(tag_ids): (success, valid_tags) and the graph
validate_tags(connected, G, tag_ids) ==
    IF ~connected THEN [ok |-> TRUE, valid |-> tag_ids, graph |-> G]
    ELSE IF tag_ids = <<>> THEN [ok |-> TRUE, valid |-> <<>>, graph |-> G]
    ELSE LET r == ValidateLoop(G, tag_ids)
         IN  [ok |-> r.invalid = <<>>, valid |-> r.valid, graph |-> r.graph]

\* ---------------------------------------------------------- EntryService
SeqToSet(q) == { q[i] : i \in 1..Len(q) }

HasDuplicates(q) == \E i, j \in 1..Len(q) : i # j /\ q[i] = q[j]

\* EntryService.create_entry(user_id, title, ..., tags) for a valid title,
\* mood, visibility and coordinates.  The tags are validated once here and
\* once more in _add_tags_to_entry; two EntryTag rows with one primary key
\* make the commit raise, and the relational transaction is rolled back
\* (the graph updates are not).
create_entry(connected, user_id, tag_ids) ==
    LET v1 == validate_tags(connected, gtags, tag_ids)
        valid_tags == IF v1.ok THEN v1.valid ELSE <<>>
        v2 == IF valid_tags # <<>>
              THEN validate_tags(connected, v1.graph, valid_tags)
              ELSE [ok |-> TRUE, valid |-> <<>>, graph |-> v1.graph]
        id == entries + 1
    IN  /\ ops < MaxOps
        /\ ops' = ops + 1
        /\ gtags' = v2.graph
        /\ IF HasDuplicates(v2.valid)
           THEN /\ last' = [op |-> "create_entry", ok |-> FALSE, msg |-> "exception"]
                /\ UNCHANGED <<sqlVars, gedges>>
           ELSE /\ entries' = id
                /\ entry_tags' = entry_tags \cup { <<id, t>> : t \in SeqToSet(v2.valid) }
                /\ last' = [op |-> "create_entry", ok |-> TRUE, msg |-> "created"]
                /\ UNCHANGED <<tags, history, gedges>>

\* -------------------------------------------- TagTreeService.get_tag_tree
\* max_depth arguments of get_tag_tree (the default is 3)
DepthInputs == 0..3

\* a builder that never descends
_build_tag_tree_shallow(T, id, max_depth) == {id}

\* TagTreeService._build_tag_tree: the tag and, while max_depth > 0, the
\* trees of its active children
RECURSIVE _build_tag_tree(_, _, _)
_build_tag_tree(T, id, max_depth) ==
    {id} \cup
    IF max_depth > 0
    THEN UNION { _build_tag_tree(T, c, max_depth - 1) :
                   c \in { k \in ActiveIds(T) : T[k].parent_id = id } }
    ELSE {}

\* TagTreeService.get_tag_tree(root_id, max_depth)
get_tag_tree(T, root_id, max_depth) ==
    LET root_tags == IF root_id # NULL THEN {root_id} \cap ActiveIds(T)
                     ELSE { k \in ActiveIds(T) : T[k].parent_id = NULL }
    IN  UNION { _build_tag_tree(T, k, max_depth) : k \in root_tags }

\* TagTreeService._get_tag_stats: the row as the session holds it after the
\* call: a usage_count that differs from the number of EntryTag rows is set
\* to that number and then passed to increment_usage
_get_tag_stats(T, E, id) ==
    LET usage_count == Cardinality({ e \in E : e[2] = id })
    IN  IF T[id].usage_count # usage_count
        THEN increment_usage([ T[id] EXCEPT !.usage_count = usage_count ])
        ELSE T[id]

\* the rows of the session after get_tag_tree(root_id, max_depth, True)
StatsSession(T, E, root_id, max_depth) ==
    [ i \in DOMAIN T |->
        IF i \in get_tag_tree(T, root_id, max_depth) THEN _get_tag_stats(T, E, i)
        ELSE T[i] ]

\* TagTreeService.get_tag_tree(root_id, max_depth, include_stats=True): the
\* method never commits, so the rows of StatsSession are dropped with the
\* session when the request ends and the stored rows stay as they were
get_tag_tree_include_stats(root_id, max_depth) ==
    /\ last' = [op |-> "get_tag_tree", ok |-> TRUE, msg |-> "stats"]
    /\ UNCHANGED <<sqlVars, graphVars, ops>>

\* ---------------------------------------------------------------- actions

MoveTag ==
    /\ CanCall
    /\ UNCHANGED calls
    /\ \E t \in SqlIds, p \in {NULL} \cup SqlIds, u \in TreeUsers :
          move_tag(t, p, u)

MergeTags ==
    /\ CanCall
    /\ UNCHANGED calls
    /\ \E s \in SqlIds, t \in SqlIds, u \in TreeUsers :
          merge_tags(s, t, u)

TsCreateTag ==
    /\ CanCall
    /\ UNCHANGED calls
    /\ \E c \in BOOLEAN, u \in Users, n \in GraphNames, p \in {NULL} \cup GraphIds :
          ts_create_tag(c, u, n, p)

TsUpdateTag ==
    /\ CanCall
    /\ UNCHANGED calls
    /\ \E c \in BOOLEAN, t \in GraphIds, u \in Users, d \in UpdateInputs :
          ts_update_tag(c, t, u, d)

TsDeleteTag ==
    /\ CanCall
    /\ UNCHANGED calls
    /\ \E c \in BOOLEAN, t \in GraphIds, u \in Users :
          ts_delete_tag(c, t, u)

\* tag lists of one or two ids
TagLists ==
    { <<a>> : a \in EntryTagInputs } \cup (EntryTagInputs \X EntryTagInputs)

CreateEntry ==
    /\ CanCall
    /\ UNCHANGED calls
    /\ \E c \in BOOLEAN, u \in EntryUsers, l \in TagLists :
          create_entry(c, u, l)

GetTagTreeStats ==
    /\ CanCall
    /\ UNCHANGED calls
    /\ \E r \in {NULL} \cup SqlIds, d \in DepthInputs :
          get_tag_tree_include_stats(r, d)

Next ==
    \/ CreateTag
    \/ MoveTag
    \/ MergeTags
    \/ TsCreateTag
    \/ TsUpdateTag
    \/ TsDeleteTag
    \/ CreateEntry
    \/ GetTagTreeStats

Spec == Init /\ [][Next]_vars

\* ================================================================ claims
\* the parent of a row, or NULL
ParentOf(T, id) == T[id].parent_id

\* following parent_id from id reaches a row without parent within fuel steps
RECURSIVE ReachesRoot(_, _, _)
ReachesRoot(T, id, fuel) ==
    IF id = NULL THEN TRUE
    ELSE IF fuel = 0 \/ id \notin DOMAIN T THEN FALSE
    ELSE ReachesRoot(T, T[id].parent_id, fuel - 1)

\* the rows strictly below id, found downwards through parent_id
RECURSIVE Below(_, _, _)
Below(T, S, fuel) ==
    LET more == S \cup { c \in DOMAIN T : T[c].parent_id \in S }
    IN  IF fuel = 0 \/ more = S THEN S ELSE Below(T, more, fuel - 1)

Descendants(T, id) ==
    Below(T, { c \in DOMAIN T : T[c].parent_id = id }, Cardinality(DOMAIN T))

\* a sequence begins with another
StartsWith(s, prefix) ==
    Len(prefix) <= Len(s) /\ SubSeq(s, 1, Len(prefix)) = prefix

\* C1: after any sequence of create_tag and move_tag calls, successful or
\* failed, following parent_id from any tag ends at a tag without parent
\* within as many steps as there are tags: no tag is its own ancestor.
C1_NoCycle ==
    \A t \in DOMAIN tags : ReachesRoot(tags, t, Cardinality(DOMAIN tags))

\* a move succeeded and left a chain three tags deep
C1_Witness ==
    /\ last.op = "move_tag" /\ last.ok
    /\ \E t \in DOMAIN tags :
          /\ ParentOf(tags, t) # NULL
          /\ ParentOf(tags, ParentOf(tags, t)) # NULL

\* C2: after every successful create_tag or move_tag every active tag has
\* level = parent.level + 1, or level 0 without parent; this includes every
\* descendant of a moved tag.
C2_LevelConsistent ==
    (last.ok /\ last.op \in {"create_tag", "move_tag"}) =>
        \A t \in ActiveIds(tags) :
            tags[t].level = IF ParentOf(tags, t) = NULL THEN 0
                            ELSE tags[ParentOf(tags, t)].level + 1

\* C3: after every successful create_tag or move_tag every active tag's path
\* is parent.path + "/" + name, or name without parent; moving a subtree
\* root rewrites the path of every transitive descendant.
C3_PathConsistent ==
    (last.ok /\ last.op \in {"create_tag", "move_tag"}) =>
        \A t \in ActiveIds(tags) :
            tags[t].path = IF ParentOf(tags, t) = NULL THEN tags[t].name
                           ELSE tags[ParentOf(tags, t)].path \o <<"/">> \o tags[t].name

\* a tag with a grandchild was moved under a new parent, and the
\* grandchild's path now begins with the new parent's path
C3_Witness ==
    /\ last.op = "move_tag" /\ last.ok
    /\ \E t, d \in ActiveIds(tags) :
          /\ history[Len(history)].tag_id = t
          /\ ParentOf(tags, t) # NULL
          /\ history[Len(history)].old_data[1].parent_id = NULL
          /\ ParentOf(tags, d) # NULL
          /\ ParentOf(tags, ParentOf(tags, d)) = t
          /\ StartsWith(tags[d].path, tags[ParentOf(tags, t)].path \o <<"/">>)

\* C4: move_tag(tag, new_parent) fails whenever new_parent is the tag itself
\* or one of its descendants, and then no tag row and no history row changes.
C4_CycleMoveRejected ==
    [][ \A t \in SqlIds, p \in SqlIds, u \in TreeUsers :
          ( /\ last'.op = "move_tag"
            /\ t \in DOMAIN tags /\ p \in DOMAIN tags
            /\ (p = t \/ p \in Descendants(tags, t))
            /\ move_tag(t, p, u) )
          => (~last'.ok /\ tags' = tags /\ history' = history) ]_vars

\* a move under a descendant was refused as a cycle
C4_Witness ==
    /\ last.op = "move_tag" /\ ~last.ok /\ last.msg = "cycle"
    /\ \E t \in ActiveIds(tags) : Descendants(tags, t) \cap ActiveIds(tags) # {}

\* C5: after a successful merge_tags(source, target) the target's
\* usage_count is its old usage_count plus the source's old usage_count.
C5_MergeUsageSum ==
    [][ \A s \in SqlIds, t \in SqlIds, u \in TreeUsers :
          (last'.op = "merge_tags" /\ last'.ok /\ merge_tags(s, t, u))
          => tags'[t].usage_count = tags[t].usage_count + tags[s].usage_count ]_vars

\* C6: every tag whose status is 'merged' has merged_to set to the id of a
\* tag that is active now.
C6_MergedPointsToActive ==
    \A t \in DOMAIN tags :
        tags[t].status = "merged" => tags[t].merged_to \in ActiveIds(tags)

\* C7: a tag whose status is 'merged' or 'deleted' keeps that status through
\* every create, update, move, merge and delete call, in both stores.
C7_TerminalStatus ==
    [][ /\ \A t \in DOMAIN tags :
              tags[t].status \in {"merged", "deleted"}
              => (t \in DOMAIN tags' /\ tags'[t].status = tags[t].status)
        /\ \A g \in DOMAIN gtags :
              gtags[g].status \in {"merged", "deleted"}
              => (g \in DOMAIN gtags' /\ gtags'[g].status = gtags[g].status) ]_vars

\* an update of a deleted graph tag was refused
C7_Witness ==
    /\ last.op = "ts_update_tag" /\ ~last.ok /\ last.msg = "deleted"
    /\ \E g \in DOMAIN gtags : gtags[g].status = "deleted"

\* C8: merge_tags(source, target) of two distinct active tags succeeds
\* whatever the content taggings are; afterwards no tagging references the
\* source and every entry that had the source has the target.
C8_MergeRewritesTaggings ==
    [][ \A s \in SqlIds, t \in SqlIds, u \in TreeUsers \cap Users :
          ( /\ last'.op = "merge_tags"
            /\ s \in ActiveIds(tags) /\ t \in ActiveIds(tags) /\ s # t
            /\ merge_tags(s, t, u) )
          => ( /\ last'.ok
               /\ \A r \in entry_tags' : r[2] # s
               /\ \A r \in entry_tags : r[2] = s => <<r[1], t>> \in entry_tags' ) ]_vars

\* C9: merge_tags fails when source and target are the same id and when
\* either id is unknown or not active; on such a failure no tag row, no
\* content tagging and no history row changes.
C9_MergeRejected ==
    [][ \A s \in SqlIds, t \in SqlIds, u \in TreeUsers :
          ( /\ last'.op = "merge_tags"
            /\ (s = t \/ s \notin DOMAIN tags \/ t \notin DOMAIN tags
                \/ tags[s].status # "active" \/ tags[t].status # "active")
            /\ merge_tags(s, t, u) )
          => ( /\ ~last'.ok
               /\ tags' = tags /\ entry_tags' = entry_tags
               /\ history' = history ) ]_vars

\* a merge was refused for a missing or inactive tag while a merged tag exists
C9_Witness ==
    /\ last.op = "merge_tags" /\ ~last.ok /\ last.msg = "tag_not_found"
    /\ \E t \in DOMAIN tags : tags[t].status = "merged"

\* C10: no two active tags have the same name; a create whose stripped name
\* is the name of an active tag fails and adds nothing.
C10_ActiveNamesUnique ==
    [][ /\ \A i, j \in ActiveIds(tags') :
              i # j => tags'[i].name # tags'[j].name
        /\ \A n \in RawNames, u \in TreeUsers, p \in {NULL} \cup SqlIds :
              ( /\ last'.op = "create_tag"
                /\ \E i \in DOMAIN tags :
                      tags[i].status = "active" /\ tags[i].name = rstrip(lstrip(n))
                /\ create_tag(n, u, p) )
              => (~last'.ok /\ tags' = tags /\ history' = history) ]_vars

\* a create reused the name of a merged tag
C10_Witness ==
    /\ last.op = "create_tag" /\ last.ok
    /\ \E i, j \in DOMAIN tags :
          /\ tags[i].status = "merged" /\ tags[j].status = "active"
          /\ tags[i].name = tags[j].name

\* C11: TagService.create_tag with a name that a non-deleted graph tag
\* already has fails with 'already exists' and adds no tag, whatever other
\* tags the store holds.
C11_DuplicateRejected ==
    [][ \A u \in Users, n \in GraphNames, p \in {NULL} \cup GraphIds :
          ( /\ last'.op = "ts_create_tag"
            /\ \E g \in DOMAIN gtags :
                  gtags[g].status # "deleted" /\ gtags[g].name = rstrip(lstrip(n))
            /\ ts_create_tag(TRUE, u, n, p) )
          => (~last'.ok /\ last'.msg = "exists" /\ gtags' = gtags) ]_vars

\* C12: a create whose parent id does not resolve to an active tag (unknown,
\* deleted or merged) fails and creates no tag, in TagTreeService.create_tag
\* and in TagService.create_tag.
C12_ParentMustBeActive ==
    [][ /\ \A n \in RawNames, u \in TreeUsers, p \in SqlIds :
              ( /\ last'.op = "create_tag"
                /\ p \notin ActiveIds(tags)
                /\ create_tag(n, u, p) )
              => (~last'.ok /\ tags' = tags)
        /\ \A u \in Users, n \in GraphNames, p \in GraphIds :
              ( /\ last'.op = "ts_create_tag"
                /\ (p \notin DOMAIN gtags \/ gtags[p].status # "active")
                /\ ts_create_tag(TRUE, u, n, p) )
              => (~last'.ok /\ gtags' = gtags) ]_vars

\* C13: a tag created by TagService.create_tag has level 0 when no parent id
\* is given and level parent.level + 1 when one is given.
C13_GraphLevel ==
    [][ \A u \in Users, n \in GraphNames, p \in {NULL} \cup GraphIds :
          ( /\ last'.op = "ts_create_tag" /\ last'.ok
            /\ ts_create_tag(TRUE, u, n, p) )
          => \A g \in DOMAIN gtags' \ DOMAIN gtags :
                gtags'[g].level = IF p = NULL THEN 0 ELSE gtags[p].level + 1 ]_vars

C15_DeletePermission ==
    [][ \A c \in BOOLEAN, t \in GraphIds, u \in Users :
          ( /\ last'.op = "ts_delete_tag"
            /\ t \in DOMAIN gtags
            /\ gtags[t].created_by # u /\ ~can_approve_changes(u)
            /\ ts_delete_tag(c, t, u) )
          => (~last'.ok /\ gtags' = gtags /\ gedges' = gedges) ]_vars

\* a delete was refused for lack of permission although a tag of another
\* creator has neither children nor taggings
C15_Witness ==
    /\ last.op = "ts_delete_tag" /\ ~last.ok /\ last.msg = "no_permission"
    /\ \E g \in DOMAIN gtags :
          /\ gtags[g].status = "active" /\ gtags[g].created_by = "system"
          /\ g_get_child_tags(gtags, gedges, g) = {}
          /\ EntryTagCount(entry_tags, g) = 0

\* ------------------------------------------------------------------ reads
\* keywords a search or suggestion request carries
QueryInputs == { <<>>, <<"e">>, <<"E">>, <<"r">>, <<"a", "e">> }

\* Neo4jClient.get_popular_tags: every node that is not deleted (the LIMIT
\* keeps any of them, depending on its value)
g_get_popular_tags(G) == { i \in DOMAIN G : G[i].status # "deleted" }

\* Neo4jClient.get_root_tags: level 0 or no incoming CONTAINS edge, not deleted
g_get_root_tags(G, E) ==
    { i \in DOMAIN G : /\ (G[i].level = 0 \/ ~\E e \in E : e[2] = i)
                       /\ G[i].status # "deleted" }

\* TagService.search_tags(query): ids of the tags returned
ts_search_tags(G, query) ==
    IF query = <<>> \/ Len(strip(query)) = 0 THEN {}
    ELSE g_search_matches(G, strip(query))

\* TagService.get_popular_tags
ts_get_popular_tags(G) == g_get_popular_tags(G)

\* TagService.get_tag_tree(root_id): ids of 'root' and 'children', or of 'roots'
ts_get_tag_tree(G, E, root_id) ==
    IF root_id # NULL
    THEN IF g_get_tag_by_id(G, root_id) = NULL THEN {}
         ELSE {root_id} \cup g_get_child_tags(G, E, root_id)
    ELSE g_get_root_tags(G, E)

\* TagTreeService.search_tags(keyword): active tags whose name ILIKE %keyword%
search_tags(T, keyword) ==
    { k \in ActiveIds(T) : keyword = <<>> \/ Contains(lower(T[k].name), lower(keyword)) }

\* TagTreeService.get_tag_suggestions(partial_name): name ILIKE partial%
get_tag_suggestions(T, partial_name) ==
    { k \in ActiveIds(T) : StartsWith(lower(T[k].name), lower(partial_name)) }

\* a listing that keeps every stored row
get_popular_tags_all(T) == DOMAIN T

\* TagTreeService.get_popular_tags
get_popular_tags(T) == ActiveIds(T)

\* every id some listing, search or tree read returns in the current state
Listed ==
    UNION { ts_search_tags(gtags, q) : q \in QueryInputs }
    \cup ts_get_popular_tags(gtags)
    \cup UNION { ts_get_tag_tree(gtags, gedges, r) : r \in {NULL} \cup GraphIds }
    \cup UNION { g_get_child_tags(gtags, gedges, r) : r \in GraphIds }
    \cup UNION { get_tag_tree(tags, r, 3) : r \in {NULL} \cup SqlIds }
    \cup UNION { search_tags(tags, q) : q \in QueryInputs }
    \cup UNION { get_tag_suggestions(tags, q) : q \in QueryInputs }
    \cup get_popular_tags(tags)

\* C16: a tag whose status is 'deleted' or 'merged' is returned by no
\* listing, search or tree read of either service.
C16_GoneNotListed ==
    /\ \A t \in DOMAIN tags :
          tags[t].status \in {"deleted", "merged"} => t \notin Listed
    /\ \A g \in DOMAIN gtags :
          gtags[g].status \in {"deleted", "merged"} => g \notin Listed

\* TagService.get_tag_by_id(tag_id): (success, message, tag); tag is <<row>>
\* or <<>> for None
ts_get_tag_by_id(connected, G, tag_id) ==
    IF ~connected THEN [ok |-> FALSE, msg |-> "unavailable", tag |-> <<>>]
    ELSE IF g_get_tag_by_id(G, tag_id) = NULL
    THEN [ok |-> FALSE, msg |-> "tag_not_found", tag |-> <<>>]
    ELSE IF G[tag_id].status = "deleted"
    THEN [ok |-> FALSE, msg |-> "deleted", tag |-> <<>>]
    ELSE [ok |-> TRUE, msg |-> "found", tag |-> << G[tag_id] >>]

\* C17: after a successful delete, get_tag_by_id with the tag's id succeeds
\* and returns the tag with status 'deleted'.
C17_DeletedStillFound ==
    \A g \in DOMAIN gtags :
        gtags[g].status = "deleted" =>
            LET r == ts_get_tag_by_id(TRUE, gtags, g)
            IN  r.ok /\ r.tag # <<>> /\ r.tag[1].status = "deleted"

\* C18: tag_history is append-only with one row per mutation: a successful
\* TagTreeService create_tag, move_tag or merge_tags adds exactly one row
\* (action create / move / merge, for the created / moved / source tag), and
\* every other step, failed calls included, leaves the table as it was.
C18_HistoryAppendOnly ==
    [][ LET n == Len(history)
        IN  IF last'.ok /\ last'.op \in {"create_tag", "move_tag", "merge_tags"}
            THEN /\ Len(history') = n + 1
                 /\ SubSeq(history', 1, n) = history
                 /\ last'.op = "create_tag" =>
                       /\ history'[n + 1].action = "create"
                       /\ history'[n + 1].tag_id \in DOMAIN tags' \ DOMAIN tags
                 /\ last'.op = "move_tag" =>
                       /\ history'[n + 1].action = "move"
                       /\ \A t \in SqlIds, p \in {NULL} \cup SqlIds, u \in TreeUsers :
                             move_tag(t, p, u) => history'[n + 1].tag_id = t
                 /\ last'.op = "merge_tags" =>
                       /\ history'[n + 1].action = "merge"
                       /\ \A s \in SqlIds, t \in SqlIds, u \in TreeUsers :
                             merge_tags(s, t, u) => history'[n + 1].tag_id = s
            ELSE history' = history ]_vars

\* a move and then a merge each added their row behind the earlier ones
C18_Witness ==
    /\ last.op = "merge_tags" /\ last.ok
    /\ Len(history) >= 2
    /\ history[Len(history) - 1].action = "move"
    /\ history[Len(history)].action = "merge"
    /\ tags[history[Len(history)].tag_id].status = "merged"

\* C19: a failure to persist the tag_history row does not fail or undo the
\* enclosing move or merge: the call reports success and the change to the
\* tag is stored.  (The row cannot be persisted when its user_id names no
\* users row.)
C19_HistoryFailureHarmless ==
    [][ /\ \A t \in SqlIds, p \in {NULL} \cup SqlIds, u \in TreeUsers :
              ( /\ last'.op = "move_tag"
                /\ ~UserExists(u)
                /\ t \in ActiveIds(tags)
                /\ p # NULL => (p \in ActiveIds(tags) /\ can_be_parent_of(tags, p, t))
                /\ move_tag(t, p, u) )
              => (last'.ok /\ tags'[t].parent_id = p)
        /\ \A s \in SqlIds, t \in SqlIds, u \in TreeUsers :
              ( /\ last'.op = "merge_tags"
                /\ ~UserExists(u)
                /\ s \in ActiveIds(tags) /\ t \in ActiveIds(tags) /\ s # t
                /\ ~RetagConflict(entry_tags, s, t)
                /\ merge_tags(s, t, u) )
              => (last'.ok /\ tags'[s].status = "merged") ]_vars

\* C20: for every successful move_tag and merge_tags the new history row's
\* old_data holds the tag's values from before the call (for a merge: the
\* source with status 'active' and no merged_to) and new_data the values
\* after it.
C20_HistorySnapshots ==
    [][ LET h == history'[Len(history')]
        IN  /\ \A t \in SqlIds, p \in {NULL} \cup SqlIds, u \in TreeUsers :
                  ( /\ last'.op = "move_tag" /\ last'.ok
                    /\ move_tag(t, p, u) )
                  => /\ h.old_data = << [ parent_id |-> tags[t].parent_id,
                                          level |-> tags[t].level,
                                          path |-> tags[t].path ] >>
                     /\ h.new_data = << [ parent_id |-> tags'[t].parent_id,
                                          level |-> tags'[t].level,
                                          path |-> tags'[t].path ] >>
            /\ \A s \in SqlIds, t \in SqlIds, u \in TreeUsers :
                  ( /\ last'.op = "merge_tags" /\ last'.ok
                    /\ merge_tags(s, t, u) )
                  => /\ h.old_data = << to_dict(tags, s) >>
                     /\ h.old_data[1].status = "active"
                     /\ h.old_data[1].properties = NULL
                     /\ h.new_data = << [ merged_to |-> tags'[s].merged_to ] >> ]_vars

\* number of parent links from an active tag up to its root when every tag
\* on the way is active, and -1 when some ancestor is not active
RECURSIVE ActiveDepth(_, _, _)
ActiveDepth(T, id, fuel) ==
    IF T[id].parent_id = NULL THEN 0
    ELSE IF fuel = 0 \/ T[id].parent_id \notin ActiveIds(T) THEN -1
    ELSE LET d == ActiveDepth(T, T[id].parent_id, fuel - 1)
         IN  IF d = -1 THEN -1 ELSE d + 1

\* C21 as stated: get_tag_tree without root id returns the active roots as
\* shallow nodes, no node below a root, whatever max_depth is.
C21_RootsShallow ==
    \A d \in DepthInputs :
        get_tag_tree(tags, NULL, d)
            = { k \in ActiveIds(tags) : tags[k].parent_id = NULL }

\* C21 amended: get_tag_tree without root id returns every active root and,
\* below each, the active tags whose chain of parents up to that root is
\* active and at most max_depth links long; the roots are shallow only for
\* max_depth = 0.
C21_RootsWithDescendants ==
    \A d \in DepthInputs :
        get_tag_tree(tags, NULL, d)
            = { k \in ActiveIds(tags) :
                  LET n == ActiveDepth(tags, k, Cardinality(DOMAIN tags))
                  IN  n >= 0 /\ n <= d }

\* after a move the tree of depth 3 holds a tag three levels below its root,
\* and the tree of depth 0 does not
C21_Witness ==
    /\ last.op = "move_tag" /\ last.ok
    /\ \E k \in ActiveIds(tags) :
          /\ ActiveDepth(tags, k, Cardinality(DOMAIN tags)) = 3
          /\ k \in get_tag_tree(tags, NULL, 3)
          /\ k \notin get_tag_tree(tags, NULL, 0)

\* ------------------------------------------- reads over deprecated tags
\* Tag.status values a stored row may carry without being gone (the column
\* comment of the model names them); no service call writes 'deprecated'
StatusInputs == { "active", "deprecated" }

\* the default tree, as loaded or with its last tag moved below the root
ReadShapes ==
    { SeedTags, update_path([ SeedTags EXCEPT ![3].parent_id = 1, ![3].level = 1 ], 3, 3) }

\* a tree of ReadShapes with each row's status drawn from StatusInputs
ReadTables ==
    { [ i \in DOMAIN T |-> [ T[i] EXCEPT !.status = s[i] ] ] :
        T \in ReadShapes, s \in [ DOMAIN SeedTags -> StatusInputs ] }

\* TagTreeService.get_categories: the rows counted, status 'active' only
\* (the category column itself is not modelled: every row falls in a group)
get_categories(T) == ActiveIds(T)

InitReads ==
    /\ tags \in ReadTables
    /\ history = <<>> /\ gtags = <<>> /\ gedges = {}
    /\ entry_tags = {} /\ entries = 0 /\ ops = 0
    /\ last = [op |-> "none", ok |-> TRUE, msg |-> {}]
    /\ calls = <<>>

\* a read returns its result and writes nothing
Returns(op, result) ==
    /\ last' = [op |-> op, ok |-> TRUE, msg |-> result]
    /\ UNCHANGED <<sqlVars, graphVars, ops, calls>>

GetTagTree ==
    \E r \in {NULL} \cup SqlIds, d \in DepthInputs :
        Returns("get_tag_tree", get_tag_tree(tags, r, d))

SearchTags == \E q \in QueryInputs : Returns("search_tags", search_tags(tags, q))

GetTagSuggestions ==
    \E q \in QueryInputs : Returns("get_tag_suggestions", get_tag_suggestions(tags, q))

GetPopularTags == Returns("get_popular_tags", get_popular_tags(tags))

GetCategories == Returns("get_categories", get_categories(tags))

NextReads ==
    \/ GetTagTree
    \/ SearchTags
    \/ GetTagSuggestions
    \/ GetPopularTags
    \/ GetCategories

SpecReads == InitReads /\ [][NextReads]_vars

ReadOps ==
    { "get_tag_tree", "search_tags", "get_tag_suggestions", "get_popular_tags",
      "get_categories" }

C23_StatsStoreCount ==
    [][ \A r \in {NULL} \cup SqlIds, d \in DepthInputs :
            get_tag_tree_include_stats(r, d) =>
                \A k \in get_tag_tree(tags, r, d) :
                    tags'[k].usage_count = Cardinality({ e \in entry_tags' : e[2] = k })
      ]_vars

\* ------------------------------------------------------------ AITagMapper
\* longest candidate list the signal sources hand to _score_candidates
MaxCandidates == 2

\* tag names the mapper looks up, written as one word each: '动物' and '植物'
\* (parent names of _find_parent_tags_for_object and _get_category_parent_tag)
\* and '生命域', '物质域', '人工制品' (targets of _find_parent_by_keywords)
CandidateNames == { "animal", "plant" }

\* confidences of the signal sources, in tenths: 0.5 description and plain
\* objects, 0.7 category of the tag name, 0.9 English tag name
Confidences == { 5, 7, 9 }

CandidateLists ==
    UNION { [ 1..n -> CandidateNames \X Confidences ] : n \in 0..MaxCandidates }

\* keyword groups of _find_parent_by_keywords the text may contain
KeywordHits == SUBSET { "biological", "physical" }

\* a value of a Numeric column as the ORM loads it: a decimal.Decimal, kept
\* in hundredths
Decimal(hundredths) == [ type |-> "Decimal", value |-> hundredths ]

\* tag rows of the default tree the mapper can meet: quality_score 8.0 is
\* what create_tags_recursive stores unless the tree says otherwise
MapperRow(name, status, usage_count) ==
    [ name |-> name, parent_id |-> NULL, level |-> 0, path |-> name,
      status |-> status, usage_count |-> usage_count,
      popularity_score |-> usage_count, merged_to |-> NULL,
      created_by |-> SystemUser, quality_score |-> Decimal(800) ]

MapperName(i) == IF i = 1 THEN "animal" ELSE IF i = 2 THEN "plant" ELSE "life"

MapperTables ==
    { [ i \in 1..3 |-> MapperRow(MapperName(i), s[i], u[i]) ] :
        s \in [ 1..3 -> { "active", "merged" } ], u \in [ 1..3 -> { 0, 30 } ] }

\* Tag.query.filter_by(name=..., status='active').first()
Resolve(T, name) ==
    LET hits == { i \in ActiveIds(T) : T[i].name = name }
    IN  IF hits = {} THEN NULL ELSE CHOOSE i \in hits : \A j \in hits : i <= j

\* confidence x min(1.2, 1 + usage_count / 100) x quality / 10, as an integer:
\* tenths x hundredths x thousandths
ScoreOf(confidence, usage_count, quality) ==
    LET factor == IF usage_count > 0
                  THEN (IF 100 + usage_count < 120 THEN 100 + usage_count ELSE 120)
                  ELSE 100
    IN  confidence * factor * quality

\* AITagMapper._score_candidates: the loop over the candidates from
\* position i on.  'scored' is the dict, 'order' its insertion order.
\* parent_tag.quality_score / 10.0 divides a Decimal by a float, which
\* Python refuses with a TypeError.
RECURSIVE ScoreLoop(_, _, _, _, _)
ScoreLoop(T, candidates, i, scored, order) ==
    IF i > Len(candidates) THEN [ raised |-> FALSE, scored |-> scored, order |-> order ]
    ELSE LET parent_tag == Resolve(T, candidates[i][1])
         IN  IF parent_tag = NULL
             THEN ScoreLoop(T, candidates, i + 1, scored, order)
             ELSE IF T[parent_tag].quality_score.type = "Decimal"
             THEN [ raised |-> TRUE, scored |-> scored, order |-> order ]
             ELSE LET score == ScoreOf(candidates[i][2], T[parent_tag].usage_count,
                                       T[parent_tag].quality_score.value)
                  IN  IF parent_tag \in DOMAIN scored
                      THEN ScoreLoop(T, candidates, i + 1,
                               [ scored EXCEPT ![parent_tag] =
                                   IF @ > score THEN @ ELSE score ], order)
                      ELSE ScoreLoop(T, candidates, i + 1,
                               Insert(scored, parent_tag, score),
                               Append(order, parent_tag))

_score_candidates(T, candidates) == ScoreLoop(T, candidates, 1, <<>>, <<>>)

\* sorted(scored.items(), key=lambda x: x[1], reverse=True)[0]: the (tag,
\* score) pair of the highest score, the earliest inserted among equals
FirstSorted(r) ==
    LET k == CHOOSE a \in DOMAIN r.order :
                 \A b \in DOMAIN r.order :
                     \/ r.scored[r.order[a]] > r.scored[r.order[b]]
                     \/ r.scored[r.order[a]] = r.scored[r.order[b]] /\ a <= b
    IN  << r.order[k], r.scored[r.order[k]] >>

\* AITagMapper.find_best_parent, from the gathered candidates on: element [1]
\* of the first sorted pair, which is its score; None when nothing was scored
\* and when _score_candidates raised (the except clause)
find_best_parent(T, candidates) ==
    LET r == _score_candidates(T, candidates)
    IN  IF r.raised THEN NULL
        ELSE IF r.order # <<>> THEN [ float |-> FirstSorted(r)[2] ]
        ELSE NULL

\* TagTreeService._find_parent_by_keywords: the first keyword group found in
\* the text whose domain tag is active
_find_parent_by_keywords(T, hits) ==
    IF "biological" \in hits /\ Resolve(T, "life") # NULL THEN Resolve(T, "life")
    ELSE IF "physical" \in hits /\ Resolve(T, "matter") # NULL THEN Resolve(T, "matter")
    ELSE IF "artificial" \in hits /\ Resolve(T, "artifact") # NULL
         THEN Resolve(T, "artifact")
    ELSE NULL

\* TagTreeService.auto_place_tag: a truthy suggestion is asked for its .id,
\* which a float does not have (AttributeError, caught: None); otherwise
\* the keyword match decides
auto_place_tag(T, candidates, hits) ==
    LET suggested_parent == find_best_parent(T, candidates)
    IN  IF suggested_parent # NULL /\ suggested_parent.float # 0 THEN NULL
        ELSE _find_parent_by_keywords(T, hits)

InitMapper ==
    /\ tags \in MapperTables
    /\ history = <<>> /\ gtags = <<>> /\ gedges = {}
    /\ entry_tags = {} /\ entries = 0 /\ ops = 0
    /\ last = [op |-> "none", ok |-> TRUE, msg |-> NULL,
               candidates |-> <<>>, hits |-> {}]
    /\ calls = <<>>

\* a call of the mapper returns its result and writes nothing
MapperReturns(op, candidates, hits, result) ==
    /\ last' = [op |-> op, ok |-> TRUE, msg |-> result,
                candidates |-> candidates, hits |-> hits]
    /\ UNCHANGED <<sqlVars, graphVars, ops, calls>>

\* one call of the mapper in each behaviour: a call reads the table only
NoCallYet == last.op = "none"

ScoreCandidates ==
    NoCallYet /\ \E c \in CandidateLists :
        MapperReturns("_score_candidates", c, {}, _score_candidates(tags, c))

FindBestParent ==
    NoCallYet /\ \E c \in CandidateLists :
        MapperReturns("find_best_parent", c, {}, find_best_parent(tags, c))

AutoPlaceTag ==
    NoCallYet /\ \E c \in CandidateLists, h \in KeywordHits :
        MapperReturns("auto_place_tag", c, h, auto_place_tag(tags, c, h))

NextMapper ==
    \/ ScoreCandidates
    \/ FindBestParent
    \/ AutoPlaceTag

SpecMapper == InitMapper /\ [][NextMapper]_vars

\* the tags the candidates of the last call resolve to
ResolvedBy(candidates) ==
    { Resolve(tags, candidates[i][1]) : i \in DOMAIN candidates } \ {NULL}

\* the highest score a candidate of the list gives tag p
MaxScore(candidates, p) ==
    LET scores == { ScoreOf(candidates[i][2], tags[p].usage_count,
                            tags[p].quality_score.value) :
                      i \in { j \in DOMAIN candidates :
                                Resolve(tags, candidates[j][1]) = p } }
    IN  CHOOSE m \in scores : \A n \in scores : m >= n

\* C24: _score_candidates gives every tag some candidates resolve to the
\* maximum of those candidates' scores (confidence x usage factor x quality
\* factor), whatever the order of the candidates.
C24_MaxScore ==
    last.op = "_score_candidates" =>
        /\ ~last.msg.raised
        /\ DOMAIN last.msg.scored = ResolvedBy(last.candidates)
        /\ \A p \in ResolvedBy(last.candidates) :
              last.msg.scored[p] = MaxScore(last.candidates, p)

\* C25: auto_place_tag returns null when no candidate resolves to an active
\* tag, and a non-null result is the id of the resolved candidate with the
\* highest score.
C25_BestOrNull ==
    last.op = "auto_place_tag" =>
        LET R == ResolvedBy(last.candidates)
        IN  /\ R = {} => last.msg = NULL
            /\ last.msg # NULL =>
                  /\ last.msg \in R
                  /\ \A p \in R : MaxScore(last.candidates, last.msg)
                                    >= MaxScore(last.candidates, p)

\* ------------------------------------------------- parents of active tags
\* C26: in every reachable state the parent of an active tag is an active
\* tag; a merge of a tag that has children leaves no child below a parent
\* that is not active.
C26_ActiveParentActive ==
    \A k \in ActiveIds(tags) :
        tags[k].parent_id # NULL => tags[k].parent_id \in ActiveIds(tags)

\* ------------------------------------------- two requests at the same time
\* Each request runs in a session and transaction of its own (READ COMMITTED,
\* the default of the database; no query locks a row).  A request first
\* reads and checks what is committed, then flushes and commits what its
\* session changed; the other request may run between the two steps.
ConcRow(name) ==
    [ name |-> name, parent_id |-> NULL, level |-> 0, path |-> name,
      status |-> "active", usage_count |-> 0, popularity_score |-> 0,
      merged_to |-> NULL, created_by |-> "u1" ]

\* two unrelated roots, as two create_tag calls on the empty table leave them
TwoRoots == [ i \in 1..2 |-> IF i = 1 THEN ConcRow(<<"r">>) ELSE ConcRow(<<"e">>) ]

TwoRootsHistory ==
    LET H1 == _record_history(<<>>, 1, "create", "u1",
                              << [name |-> <<"r">>, parent_id |-> NULL] >>, <<>>)
    IN  _record_history(H1, 2, "create", "u1",
                        << [name |-> <<"e">>, parent_id |-> NULL] >>, <<>>)

Requests ==
    { [ op |-> "move_tag", tag_id |-> t, new_parent_id |-> p, user_id |-> "u1" ] :
        t \in 1..2, p \in {NULL} \cup 1..2 }
    \cup { [ op |-> "create_tag", name |-> n, user_id |-> "u1", parent_id |-> NULL ] :
             n \in { <<"a">>, <<" ", "a">>, <<"b">> } }

\* move_tag up to the cycle check, on the rows T the request reads
move_tag_check(T, req) ==
    IF GetActive(T, req.tag_id) = NULL THEN "tag_not_found"
    ELSE IF req.new_parent_id # NULL /\ GetActive(T, req.new_parent_id) = NULL
    THEN "parent_not_found"
    ELSE IF req.new_parent_id # NULL /\ ~can_be_parent_of(T, req.new_parent_id, req.tag_id)
    THEN "cycle"
    ELSE "ok"

\* the rows of the session after tag.parent_id, tag.level and update_path
move_tag_session(T, req) ==
    LET level == IF req.new_parent_id # NULL THEN T[req.new_parent_id].level + 1 ELSE 0
        T1 == [T EXCEPT ![req.tag_id].parent_id = req.new_parent_id,
                        ![req.tag_id].level = level]
    IN  update_path(T1, req.tag_id, Cardinality(DOMAIN T1))

\* create_tag up to the parent check
create_tag_check(T, req) ==
    IF req.name = <<>> \/ Len(strip(req.name)) = 0 THEN "empty_name"
    ELSE IF NameTaken(T, strip(req.name)) THEN "exists"
    ELSE IF req.parent_id # NULL /\ GetActive(T, req.parent_id) = NULL
    THEN "parent_not_found"
    ELSE "ok"

\* the row create_tag builds (a root: the requests carry no parent)
create_tag_row(req) == ConcRow(strip(req.name))

\* flush: one UPDATE for each row the session changed, setting the columns
\* it changed; the other columns keep what is committed
Flush(T, read, session) ==
    [ i \in DOMAIN T |->
        IF i \in DOMAIN read /\ session[i] # read[i]
        THEN [ c \in DOMAIN T[i] |->
                 IF session[i][c] # read[i][c] THEN session[i][c] ELSE T[i][c] ]
        ELSE T[i] ]

InitConc ==
    /\ tags = TwoRoots /\ history = TwoRootsHistory
    /\ gtags = <<>> /\ gedges = {}
    /\ entry_tags = {} /\ entries = 0 /\ ops = 0
    /\ last = [op |-> "none", ok |-> TRUE, msg |-> "none"]
    /\ calls \in [ 1..2 -> { [ req |-> r, pc |-> "start", ok |-> FALSE,
                               read |-> <<>>, session |-> <<>> ] : r \in Requests } ]

\* request i reads the committed rows and runs its checks
Begin(i) ==
    /\ calls[i].pc = "start"
    /\ LET req == calls[i].req
           msg == IF req.op = "move_tag" THEN move_tag_check(tags, req)
                  ELSE create_tag_check(tags, req)
       IN  IF msg # "ok"
           THEN /\ calls' = [calls EXCEPT ![i].pc = "done"]
                /\ last' = [op |-> req.op, ok |-> FALSE, msg |-> msg]
           ELSE /\ calls' = [calls EXCEPT ![i].pc = "checked", ![i].read = tags,
                                 ![i].session =
                                    IF req.op = "move_tag" THEN move_tag_session(tags, req)
                                    ELSE tags]
                /\ UNCHANGED last
    /\ UNCHANGED <<sqlVars, graphVars, ops>>

\* request i flushes and commits a move
CommitMove(i) ==
    /\ calls[i].pc = "checked" /\ calls[i].req.op = "move_tag"
    /\ LET req == calls[i].req
           old == calls[i].read[req.tag_id]
           new == calls[i].session[req.tag_id]
       IN  /\ tags' = Flush(tags, calls[i].read, calls[i].session)
           /\ history' = _record_history(history, req.tag_id, "move", req.user_id,
                            << [ parent_id |-> old.parent_id, level |-> old.level,
                                 path |-> old.path ] >>,
                            << [ parent_id |-> new.parent_id, level |-> new.level,
                                 path |-> new.path ] >>)
    /\ calls' = [calls EXCEPT ![i].pc = "done", ![i].ok = TRUE]
    /\ last' = [op |-> "move_tag", ok |-> TRUE, msg |-> "moved"]
    /\ UNCHANGED <<entry_tags, entries, graphVars, ops>>

\* request i inserts its row and commits: tags.name has no unique constraint
CommitCreate(i) ==
    /\ calls[i].pc = "checked" /\ calls[i].req.op = "create_tag"
    /\ LET req == calls[i].req
           id  == NewTagId(tags)
       IN  /\ id \in SqlIds
           /\ tags' = Insert(tags, id, create_tag_row(req))
           /\ history' = _record_history(history, id, "create", req.user_id,
                            << [name |-> strip(req.name), parent_id |-> req.parent_id] >>,
                            <<>>)
    /\ calls' = [calls EXCEPT ![i].pc = "done", ![i].ok = TRUE]
    /\ last' = [op |-> "create_tag", ok |-> TRUE, msg |-> "created"]
    /\ UNCHANGED <<entry_tags, entries, graphVars, ops>>

NextConc ==
    \/ \E i \in 1..2 : Begin(i)
    \/ \E i \in 1..2 : CommitMove(i)
    \/ \E i \in 1..2 : CommitCreate(i)

SpecConc == InitConc /\ [][NextConc]_vars

\* both requests have returned
BothDone == calls # <<>> /\ \A i \in DOMAIN calls : calls[i].pc = "done"

\* C27: when two move_tag calls on different tags have run at the same time
\* and returned, no tag is its own ancestor.
C27_NoCycleConcurrent ==
    ( /\ BothDone
      /\ \A i \in DOMAIN calls : calls[i].req.op = "move_tag"
      /\ calls[1].req.tag_id # calls[2].req.tag_id )
    => \A t \in DOMAIN tags : ReachesRoot(tags, t, Cardinality(DOMAIN tags))

\* C28: when two create_tag calls with the same name have run at the same
\* time and returned, at most one succeeded and at most one active tag has
\* that name.
C28_OneCreateWins ==
    ( /\ BothDone
      /\ \A i \in DOMAIN calls : calls[i].req.op = "create_tag"
      /\ strip(calls[1].req.name) = strip(calls[2].req.name) )
    => /\ ~(calls[1].ok /\ calls[2].ok)
       /\ Cardinality({ k \in ActiveIds(tags) :
                          tags[k].name = strip(calls[1].req.name) }) <= 1

\* ------------------------------------------------ names in the graph store
\* C29: TagService.update_tag that sets a tag's name to the name of another
\* non-deleted tag is rejected and changes nothing.
C29_UpdateKeepsNamesUnique ==
    [][ \A t \in GraphIds, u \in Users, d \in UpdateInputs :
          ( /\ last'.op = "ts_update_tag"
            /\ "name" \in DOMAIN d
            /\ \E g \in DOMAIN gtags \ {t} :
                  gtags[g].status # "deleted" /\ gtags[g].name = d.name
            /\ ts_update_tag(TRUE, t, u, d) )
          => (~last'.ok /\ gtags' = gtags) ]_vars

\* ------------------------------------------------- usage in the graph store
\* C30: with the graph store available, EntryService.create_entry raises the
\* graph usage_count of a tag by exactly one for each EntryTag row it adds
\* for the tag, and by nothing when it attaches no tag (a list with an
\* invalid id, or validation alone).
C30_UsagePerTagging ==
    [][ \A u \in EntryUsers, l \in TagLists :
          ( /\ last'.op = "create_entry"
            /\ create_entry(TRUE, u, l) )
          => \A g \in DOMAIN gtags :
                gtags'[g].usage_count
                  = gtags[g].usage_count
                    + Cardinality({ e \in entry_tags' \ entry_tags : e[2] = g })
      ]_vars

====
